---- MODULE Spec2Model ----
(***************************************************************************)
(* Pod & Beyond booking engine: the booking state machine (Create,         *)
(* ConfirmPayment webhook, Cancel), the loyalty ledger (redeem), the admin  *)
(* bulk inventory update, the availability search and the pricing          *)
(* computation, as implemented by the Express route handlers.              *)
(*                                                                         *)
(* Every route handler is an async function: the code between two awaited  *)
(* store calls runs without interruption, and other requests interleave at *)
(* the awaits.  A handler is therefore a sequence of steps, one per        *)
(* awaited store call; the step performs the call and the synchronous code *)
(* that follows it up to the next await.  The synchronous prologue of a    *)
(* handler is merged with its first awaited call.  No handler opens a      *)
(* transaction, so a store call that throws leaves the earlier writes of   *)
(* the same handler in place (the catch block only answers 500).           *)
(*                                                                         *)
(* Time is counted in minutes since an arbitrary midnight (UTC, no DST).   *)
(***************************************************************************)
EXTENDS Integers, Sequences, FiniteSets, Bags, TLC

VARIABLES
    roomType,   \* RoomType rows: id -> [capacity, baseRate]
    inventory,  \* Inventory rows: <<roomTypeId, date>> -> [allotment, booked]
    booking,    \* Booking rows, in creation order; a booking's id is its index
    points,     \* User.points, the denormalized balance: userId -> Int
    ledger,     \* LoyaltyLedger rows, append-only: a bag of rows (ids and timestamps left out)
    orders,     \* number of orders the payment gateway has created
    env,        \* deployment configuration (optional secrets set or not)
    channel,    \* channel manager: ProviderPayload rows and the local bookings pulls inserted
    req         \* per request slot: the handler running in it and its locals

store == <<roomType, inventory, booking, points, ledger>>
vars == <<roomType, inventory, booking, points, ledger, orders, env, channel, req>>

----------------------------------------------------------------------------
(* Bounds of the model *)

MaxBookings == 1      \* Booking rows that Create may persist
MaxRedeems == 2       \* REDEEM rows after which no new redeem is started
MaxSyncs == 2         \* ProviderPayload rows after which no new sync is started

(* Program constants *)

Day == 1440                \* minutes per day: 1000 * 60 * 60 * 24 ms
FullRefundHours == 24      \* hoursUntilCheckIn > 24
PointsDivisor == 10000     \* 1 point per 10000 paise
SeedBaseRate == 500000     \* seed: Deluxe Room, 5000 rupees in paise
SeedCapacity == 2

Procs == {"p1", "p2"}
Users == {1}
NoUser == 0
NoOrder == 0
RoomTypeIds == {1}
SeedPoints == 0

----------------------------------------------------------------------------
(* Pricing: Math.round on a non-negative amount is round-half-up. *)

\* a variant that truncates where the code rounds
RoundPctFloor(amount, pct) == (amount * pct) \div 100

RoundPct(amount, pct) == (2 * amount * pct + 100) \div 200

\* Math.ceil((checkOut - checkIn) / one day), for checkIn < checkOut
Nights(checkIn, checkOut) == ((checkOut - checkIn) + Day - 1) \div Day

computePricing(baseRate, nights) ==
    LET baseAmount == baseRate * nights
        serviceCharge == RoundPct(baseAmount, 10)
        gstOnRoom == RoundPct(baseAmount, 12)
        gstOnService == RoundPct(serviceCharge, 18)
    IN  [baseAmount |-> baseAmount,
         serviceCharge |-> serviceCharge,
         gstOnRoom |-> gstOnRoom,
         gstOnService |-> gstOnService,
         totalAmount |-> baseAmount + serviceCharge + gstOnRoom + gstOnService]

----------------------------------------------------------------------------
(* Request slots *)

(* A slot holds the handler it runs (op), the awaited store call the handler *)
(* is at (pc, "done" once it has answered), the request inputs that the     *)
(* properties refer to (arg), the handler's local variables (loc) and its   *)
(* response (res).                                                          *)
NoLoc == [none |-> TRUE]
NoRes == [status |-> 0]
Idle == [op |-> "idle", pc |-> "done", arg |-> NoLoc, loc |-> NoLoc, res |-> NoRes]

Free(p) == req[p].pc = "done"

\* a request arrives in slot p and is answered before its first await returns
Answer(p, op, arg, res) ==
    req' = [req EXCEPT ![p] = [op |-> op, pc |-> "done", arg |-> arg, loc |-> NoLoc, res |-> res]]

\* a request arrives in slot p and goes on to the awaited call pc
Begin(p, op, arg, pc, loc) ==
    req' = [req EXCEPT ![p] = [op |-> op, pc |-> pc, arg |-> arg, loc |-> loc, res |-> NoRes]]

\* the handler in slot p answers
Respond(p, op, res) ==
    req' = [req EXCEPT ![p] = [op |-> op, pc |-> "done", arg |-> req[p].arg,
                               loc |-> NoLoc, res |-> res]]

\* the handler in slot p goes on to the awaited call pc
Goto(p, op, pc, loc) ==
    req' = [req EXCEPT ![p] = [op |-> op, pc |-> pc, arg |-> req[p].arg,
                               loc |-> loc, res |-> NoRes]]

At(p, op, pc) == req[p].op = op /\ req[p].pc = pc

----------------------------------------------------------------------------
(* Initial state: the seeded room type, inventory rows for the first two   *)
(* calendar dates, no booking, every user holding the seeded balance and   *)
(* an empty loyalty ledger.                                                *)

\* prisma.loyaltyLedger.create
LedgerCreate(rows, row) == rows (+) SetToBag({row})

\* no sync has run: no ProviderPayload row, no booking inserted by a pull
NoSync == [providerPayload |-> EmptyBag, externalBookings |-> EmptyBag]

InitInventory ==
    [k \in {<<r, d>> : r \in RoomTypeIds, d \in {Day, 2 * Day}} |->
        [allotment |-> 1, booked |-> 0]]

EnvSet == [webhookSecret : BOOLEAN, razorpayKeys : BOOLEAN]

Init ==
    /\ roomType = [r \in RoomTypeIds |-> [capacity |-> SeedCapacity, baseRate |-> SeedBaseRate]]
    /\ inventory = InitInventory
    /\ booking = <<>>
    /\ points = [u \in Users |-> SeedPoints]
    /\ ledger = EmptyBag
    /\ orders = 0
    /\ channel = NoSync
    /\ env \in EnvSet
    /\ req = [p \in Procs |-> Idle]

----------------------------------------------------------------------------
(* Store helpers *)

\* SUM(points) over a user's LoyaltyLedger rows
RECURSIVE SumRows(_, _)
SumRows(rows, keys) ==
    IF keys = {} THEN 0
    ELSE LET k == CHOOSE x \in keys : TRUE
         IN  rows[k] * k.points + SumRows(rows, keys \ {k})

LedgerSum(rows, u) == SumRows(rows, {k \in DOMAIN rows : k.userId = u})

BookingIds == 1..Len(booking)

\* prisma.booking.findFirst({ where: { razorpayOrderId } }): 0 when none matches
FindByOrder(orderId) ==
    IF \E b \in BookingIds : booking[b].razorpayOrderId = orderId
    THEN CHOOSE b \in BookingIds :
            /\ booking[b].razorpayOrderId = orderId
            /\ \A c \in BookingIds : booking[c].razorpayOrderId = orderId => b <= c
    ELSE 0

\* a variant that writes the count of a first booking where the code increments
IncrementBookedOnce(inv, r, d) ==
    IF <<r, d>> \in DOMAIN inv
    THEN [inv EXCEPT ![<<r, d>>].booked = 1]
    ELSE inv

\* prisma.inventory.updateMany({ where: { roomTypeId, date }, data: { booked: { increment: 1 } } })
IncrementBooked(inv, r, d) ==
    IF <<r, d>> \in DOMAIN inv
    THEN [inv EXCEPT ![<<r, d>>].booked = @ + 1]
    ELSE inv

\* prisma.inventory.upsert: update sets the allotment only, create starts at booked 0
UpsertInventory(inv, r, d, a) ==
    IF <<r, d>> \in DOMAIN inv
    THEN [inv EXCEPT ![<<r, d>>].allotment = a]
    ELSE inv @@ (<<r, d>> :> [allotment |-> a, booked |-> 0])

\* verifyWebhookSignature: without a configured secret every payload is accepted
verifyWebhookSignature(secretSet, signatureMatches) ==
    IF ~secretSet THEN TRUE ELSE signatureMatches

\* a variant that doubles the points, as the PLATINUM tier's multiplier would
PointsEarnedPlatinum(amountPaise) == 2 * (amountPaise \div PointsDivisor)

\* Math.floor(amountPaise / 10000)
PointsEarned(amountPaise) == amountPaise \div PointsDivisor

\* the cancellation policy; minutesUntil is checkIn - now
RefundPolicy(minutesUntil) ==
    IF minutesUntil > FullRefundHours * 60 THEN "full"
    ELSE IF minutesUntil > 0 THEN "partial"
    ELSE "none"

RefundAmount(amountPaise, minutesUntil) ==
    IF minutesUntil > FullRefundHours * 60 THEN amountPaise
    ELSE IF minutesUntil > 0 THEN RoundPct(amountPaise, 50)
    ELSE 0

----------------------------------------------------------------------------
(* Inputs the requests are drawn from *)

\* <<checkIn, checkOut>> of a Create request: two nights on dates with
\* inventory, two nights reaching a date without a row, an empty range and
\* a reversed one
CreateStays ==
    {<<Day, 3 * Day>>, <<2 * Day, 4 * Day>>, <<Day, Day>>, <<2 * Day, Day>>}
GuestCounts == {2, 3}
UnknownRoomType == 9
AnyRoomType == 0

\* checkIn and checkOut of an availability query: midnights of days 1 to 4
\* and noon of day 1
SearchTimes == {Day, Day + (Day \div 2), 2 * Day, 3 * Day, 4 * Day}

\* the clock read by Cancel: 24h01m, 24h00m and 23h59m before the check-in
\* of day 1, that check-in itself and one minute after it
NowTimes == {0 - 1, 0, 1, Day, Day + 1}

RedeemAmounts == {100, 200}
EventTypes == {"payment.captured", "payment.failed"}
OrderIds == 1..MaxBookings

\* the admin closes day 1 (allotment 0) or opens day 3 with two rooms
BulkUpdates ==
    {[roomTypeId |-> r, date |-> Day, allotment |-> 0] : r \in RoomTypeIds}
    \cup {[roomTypeId |-> r, date |-> 3 * Day, allotment |-> 2] : r \in RoomTypeIds}
BulkLists == {<<u>> : u \in BulkUpdates} \cup {<<u, v>> : u \in BulkUpdates, v \in BulkUpdates}

----------------------------------------------------------------------------
(* POST /v1/bookings: Create *)

InFlightCreates == Cardinality({p \in Procs : req[p].op = "create" /\ req[p].pc = "bookingCreate"})

\* a variant that lets a zero-night stay through
InvalidStayStrict(checkIn, checkOut) == checkIn > checkOut

\* if (checkIn >= checkOut) return res.status(400)
InvalidStay(checkIn, checkOut) == checkIn >= checkOut

\* if (roomType.capacity < data.guests) return res.status(400)
CapacityExceeded(capacity, guests) == capacity < guests

\* validation, roomType.findUnique, capacity check and pricing, for a request
\* whose <<checkIn, checkOut>> is one of stays
CreateBookingOf(p, stays) ==
    /\ Free(p)
    /\ Len(booking) + InFlightCreates < MaxBookings
    /\ \E r \in RoomTypeIds \cup {UnknownRoomType}, stay \in stays,
          guests \in GuestCounts, user \in Users \cup {NoUser} :
        LET checkIn == stay[1]
            checkOut == stay[2]
            arg == [roomTypeId |-> r, checkIn |-> checkIn, checkOut |-> checkOut,
                    guests |-> guests]
        IN  IF InvalidStay(checkIn, checkOut)
            THEN Answer(p, "create", arg, [status |-> 400, detail |-> "dates"])
            ELSE IF r \notin DOMAIN roomType
            THEN Answer(p, "create", arg, [status |-> 404, detail |-> "roomType"])
            ELSE IF CapacityExceeded(roomType[r].capacity, guests)
            THEN Answer(p, "create", arg, [status |-> 400, detail |-> "capacity"])
            ELSE LET nights == Nights(checkIn, checkOut)
                     pricing == computePricing(roomType[r].baseRate, nights)
                 IN  Begin(p, "create", arg, "bookingCreate",
                          [roomTypeId |-> r, checkIn |-> checkIn, checkOut |-> checkOut,
                           guests |-> guests, userId |-> user, nights |-> nights,
                           pricing |-> pricing])
    /\ UNCHANGED <<store, orders, env, channel>>

CreateBooking(p) == CreateBookingOf(p, CreateStays)

\* a variant that holds a room on every night of the stay
CreateInventoryHeld(inv, r, checkIn, checkOut) ==
    [k \in DOMAIN inv |->
        IF k[1] = r /\ k[2] >= checkIn /\ k[2] < checkOut
        THEN [inv[k] EXCEPT !.booked = @ + 1]
        ELSE inv[k]]

\* the Inventory rows after Create: the handler makes no inventory call
CreateInventory(inv, r, checkIn, checkOut) == inv

\* prisma.booking.create: the row starts PENDING and has no order id yet
CreateBookingInsert(p) ==
    /\ At(p, "create", "bookingCreate")
    /\ LET l == req[p].loc
       IN  /\ inventory' = CreateInventory(inventory, l.roomTypeId, l.checkIn, l.checkOut)
           /\ booking' = Append(booking,
                [status |-> "PENDING", userId |-> l.userId, roomTypeId |-> l.roomTypeId,
                 checkIn |-> l.checkIn, checkOut |-> l.checkOut, guests |-> l.guests,
                 amountPaise |-> l.pricing.totalAmount, razorpayOrderId |-> NoOrder])
           /\ Goto(p, "create", "createOrder",
                   [bookingId |-> Len(booking) + 1, nights |-> l.nights,
                    pricing |-> l.pricing])
    /\ UNCHANGED <<roomType, points, ledger, orders, env, channel>>

\* createOrder succeeds: the gateway (or the stub) returns a new order id
CreateBookingOrder(p) ==
    /\ At(p, "create", "createOrder")
    /\ orders' = orders + 1
    /\ Goto(p, "create", "bookingUpdate",
            [bookingId |-> req[p].loc.bookingId, nights |-> req[p].loc.nights,
             pricing |-> req[p].loc.pricing, orderId |-> orders + 1])
    /\ UNCHANGED <<store, env, channel>>

\* createOrder throws 'Failed to create payment order' (only with a real client)
CreateBookingOrderFails(p) ==
    /\ At(p, "create", "createOrder")
    /\ env.razorpayKeys
    /\ Respond(p, "create", [status |-> 500])
    /\ UNCHANGED <<store, orders, env, channel>>

\* prisma.booking.update({ data: { razorpayOrderId } }) and the 201 response
CreateBookingSetOrder(p) ==
    /\ At(p, "create", "bookingUpdate")
    /\ LET l == req[p].loc
       IN  /\ booking' = [booking EXCEPT ![l.bookingId].razorpayOrderId = l.orderId]
           /\ Respond(p, "create",
                [status |-> 201, bookingId |-> l.bookingId, orderId |-> l.orderId,
                 amount |-> l.pricing.totalAmount, nights |-> l.nights,
                 pricing |-> l.pricing])
    /\ UNCHANGED <<roomType, inventory, points, ledger, orders, env, channel>>

----------------------------------------------------------------------------
(* POST /v1/bookings/:id/cancel: Cancel *)

\* a variant that prices the stay again at the room type's current rate
BookingTotalRepriced(id) ==
    computePricing(roomType[booking[id].roomTypeId].baseRate,
                   Nights(booking[id].checkIn, booking[id].checkOut)).totalAmount

\* booking.amountPaise: the total stored by Create
BookingTotal(id) == booking[id].amountPaise

\* booking.findUnique, the two rejections and the refund policy at `now`
CancelBooking(p) ==
    /\ Free(p)
    /\ \E id \in 1..MaxBookings, now \in NowTimes :
        IF id \notin BookingIds
        THEN Answer(p, "cancel", [bookingId |-> id], [status |-> 404])
        ELSE IF booking[id].status = "CANCELLED"
        THEN Answer(p, "cancel", [bookingId |-> id], [status |-> 400])
        ELSE LET minutesUntil == booking[id].checkIn - now
             IN  Begin(p, "cancel", [bookingId |-> id], "bookingUpdate",
                      [bookingId |-> id, minutesUntil |-> minutesUntil,
                       refundAmount |-> RefundAmount(BookingTotal(id), minutesUntil),
                       refundPolicy |-> RefundPolicy(minutesUntil)])
    /\ UNCHANGED <<store, orders, env, channel>>

\* a variant that gives the nights of a paid booking back
CancelInventoryRestored(inv, id) ==
    [k \in DOMAIN inv |->
        IF /\ booking[id].status = "PAID"
           /\ k[1] = booking[id].roomTypeId
           /\ k[2] >= booking[id].checkIn /\ k[2] < booking[id].checkOut
        THEN [inv[k] EXCEPT !.booked = @ - 1]
        ELSE inv[k]]

\* the Inventory rows after Cancel: the handler makes no inventory call
CancelInventory(inv, id) == inv

\* prisma.booking.update({ data: { status: 'CANCELLED' } }) and the response
CancelBookingUpdate(p) ==
    /\ At(p, "cancel", "bookingUpdate")
    /\ LET l == req[p].loc
       IN  /\ booking' = [booking EXCEPT ![l.bookingId].status = "CANCELLED"]
           /\ inventory' = CancelInventory(inventory, l.bookingId)
           /\ Respond(p, "cancel",
                [status |-> 200, bookingId |-> l.bookingId,
                 refundAmount |-> l.refundAmount, refundPolicy |-> l.refundPolicy])
    /\ UNCHANGED <<roomType, points, ledger, orders, env, channel>>

----------------------------------------------------------------------------
(* POST /v1/bookings/webhooks/razorpay: ConfirmPayment *)

\* where the handler continues once the loyalty writes are done (or skipped):
\* the inventory loop starts at d = checkIn and runs while d < checkOut; after
\* it the handler logs "marked as PAID, inventory updated" and answers ok
WebhookInventoryLoop(p, id, r, d, checkOut) ==
    IF d < checkOut
    THEN Goto(p, "webhook", "inventoryUpdate",
              [bookingId |-> id, roomTypeId |-> r, d |-> d, checkOut |-> checkOut])
    ELSE Respond(p, "webhook", [status |-> 200, marked |-> TRUE])

\* variants of the guard: a webhook that confirms all but cancelled bookings,
\* and one that confirms all but paid bookings
ConfirmableNotCancelled(status) == status # "CANCELLED"

ConfirmableNotPaid(status) == status # "PAID"

\* if (booking.status === 'PENDING'): the test that makes the handler idempotent
Confirmable(status) == status = "PENDING"

\* signature check, event filter, booking.findFirst and the status test, for
\* a notification that names one of orderIds
RazorpayWebhookOf(p, orderIds) ==
    /\ Free(p)
    /\ \E orderId \in orderIds, event \in EventTypes, signatureMatches \in BOOLEAN :
        LET arg == [orderId |-> orderId, event |-> event, signatureMatches |-> signatureMatches]
        IN
        IF ~verifyWebhookSignature(env.webhookSecret, signatureMatches)
        THEN Answer(p, "webhook", arg, [status |-> 400])
        ELSE IF event # "payment.captured"
        THEN Answer(p, "webhook", arg,
                    [status |-> 200, marked |-> FALSE])
        ELSE LET id == FindByOrder(orderId)
             IN  IF id = 0
                 THEN Answer(p, "webhook", arg, [status |-> 404])
                 ELSE IF Confirmable(booking[id].status)
                 THEN Begin(p, "webhook", arg, "bookingUpdate",
                           [bookingId |-> id, userId |-> booking[id].userId,
                            amountPaise |-> BookingTotal(id),
                            roomTypeId |-> booking[id].roomTypeId,
                            checkIn |-> booking[id].checkIn,
                            checkOut |-> booking[id].checkOut])
                 ELSE Answer(p, "webhook", arg,
                             [status |-> 200, marked |-> FALSE])
    /\ UNCHANGED <<store, orders, env, channel>>

RazorpayWebhook(p) == RazorpayWebhookOf(p, OrderIds)

\* prisma.booking.update({ data: { status: 'PAID' } })
WebhookBookingUpdate(p) ==
    /\ At(p, "webhook", "bookingUpdate")
    /\ LET l == req[p].loc
       IN  /\ booking' = [booking EXCEPT ![l.bookingId].status = "PAID"]
           /\ IF l.userId # NoUser
              THEN Goto(p, "webhook", "ledgerCreate", l)
              ELSE WebhookInventoryLoop(p, l.bookingId, l.roomTypeId, l.checkIn, l.checkOut)
    /\ UNCHANGED <<roomType, inventory, points, ledger, orders, env, channel>>

\* prisma.loyaltyLedger.create({ data: { userId, points: pointsEarned, type: 'EARN', ref } })
WebhookLedgerCreate(p) ==
    /\ At(p, "webhook", "ledgerCreate")
    /\ LET l == req[p].loc
       IN  /\ ledger' = LedgerCreate(ledger,
                [userId |-> l.userId, points |-> PointsEarned(l.amountPaise),
                 type |-> "EARN", ref |-> l.bookingId])
           /\ Goto(p, "webhook", "userUpdate", l)
    /\ UNCHANGED <<roomType, inventory, booking, points, orders, env, channel>>

\* prisma.user.update({ data: { points: { increment: pointsEarned } } })
WebhookUserUpdate(p) ==
    /\ At(p, "webhook", "userUpdate")
    /\ LET l == req[p].loc
       IN  /\ points' = [points EXCEPT ![l.userId] = @ + PointsEarned(l.amountPaise)]
           /\ WebhookInventoryLoop(p, l.bookingId, l.roomTypeId, l.checkIn, l.checkOut)
    /\ UNCHANGED <<roomType, inventory, booking, ledger, orders, env, channel>>

\* one pass of the loop: inventory.updateMany for date d, then d.setDate(d + 1)
WebhookInventoryUpdate(p) ==
    /\ At(p, "webhook", "inventoryUpdate")
    /\ LET l == req[p].loc
       IN  /\ inventory' = IncrementBooked(inventory, l.roomTypeId, l.d)
           /\ WebhookInventoryLoop(p, l.bookingId, l.roomTypeId, l.d + Day, l.checkOut)
    /\ UNCHANGED <<roomType, booking, points, ledger, orders, env, channel>>

----------------------------------------------------------------------------
(* POST /v1/loyalty/redeem *)

Redeemed == BagCardinality([k \in {x \in DOMAIN ledger : x.type = "REDEEM"} |-> ledger[k]])

\* a variant that refuses only an empty balance
InsufficientBalanceEmpty(balance, pts) == balance <= 0

\* if (user.points < points) return res.status(400): 'Insufficient points'
InsufficientBalance(balance, pts) == balance < pts

\* a variant that converts points at 100 to 1
DiscountAmountPercent(pts) == pts \div 100

\* discountAmount: points (1 point = 1 rupee)
DiscountAmount(pts) == pts

\* user.findUnique and the balance check; u is the authenticated user the
\* router's requireAuth middleware identified
RedeemPoints(p) ==
    /\ Free(p)
    /\ Redeemed < MaxRedeems
    /\ \E u \in Users, pts \in RedeemAmounts :
        IF InsufficientBalance(points[u], pts)
        THEN Answer(p, "redeem", [userId |-> u, points |-> pts], [status |-> 400])
        ELSE Begin(p, "redeem", [userId |-> u, points |-> pts], "ledgerCreate",
                  [userId |-> u, points |-> pts, userPoints |-> points[u]])
    /\ UNCHANGED <<store, orders, env, channel>>

\* data: { userId, points: -points, type: 'REDEEM', ref: bookingId }
\* a variant that records the redeemed points unsigned
RedeemRowUnsigned(userId, pts) == [userId |-> userId, points |-> pts, type |-> "REDEEM", ref |-> 0]

RedeemRow(userId, pts) == [userId |-> userId, points |-> 0 - pts, type |-> "REDEEM", ref |-> 0]

\* prisma.loyaltyLedger.create of the redemption row
RedeemLedgerCreate(p) ==
    /\ At(p, "redeem", "ledgerCreate")
    /\ LET l == req[p].loc
       IN  /\ ledger' = LedgerCreate(ledger, RedeemRow(l.userId, l.points))
           /\ Goto(p, "redeem", "userUpdate", l)
    /\ UNCHANGED <<roomType, inventory, booking, points, orders, env, channel>>

\* prisma.user.update({ data: { points: { decrement: points } } }) and the response
RedeemUserUpdate(p) ==
    /\ At(p, "redeem", "userUpdate")
    /\ LET l == req[p].loc
       IN  /\ points' = [points EXCEPT ![l.userId] = @ - l.points]
           /\ Respond(p, "redeem",
                [status |-> 200, pointsRedeemed |-> l.points,
                 discountAmount |-> DiscountAmount(l.points),
                 remainingPoints |-> l.userPoints - l.points])
    /\ UNCHANGED <<roomType, inventory, booking, ledger, orders, env, channel>>

----------------------------------------------------------------------------
(* PUT /v1/admin/inventory/bulk *)

BulkContinue(p, updates) ==
    IF updates = <<>>
    THEN Respond(p, "bulk", [status |-> 200])
    ELSE Goto(p, "bulk", "upsert", [updates |-> updates])

\* the first upsert of the list
BulkInventory(p) ==
    /\ Free(p)
    /\ \E updates \in BulkLists :
        LET u == Head(updates)
        IN  /\ inventory' = UpsertInventory(inventory, u.roomTypeId, u.date, u.allotment)
            /\ IF Tail(updates) = <<>>
               THEN Answer(p, "bulk", NoLoc, [status |-> 200])
               ELSE Begin(p, "bulk", NoLoc, "upsert", [updates |-> Tail(updates)])
    /\ UNCHANGED <<roomType, booking, points, ledger, orders, env, channel>>

\* the following upserts, one per pass of the loop
BulkInventoryUpsert(p) ==
    /\ At(p, "bulk", "upsert")
    /\ LET u == Head(req[p].loc.updates)
       IN  /\ inventory' = UpsertInventory(inventory, u.roomTypeId, u.date, u.allotment)
           /\ BulkContinue(p, Tail(req[p].loc.updates))
    /\ UNCHANGED <<roomType, booking, points, ledger, orders, env, channel>>

----------------------------------------------------------------------------
(* GET /v1/availability *)

\* the dates visited by: for (d = checkIn; d < checkOut; d.setDate(d.getDate() + 1))
RECURSIVE RequiredDates(_, _)
RequiredDates(d, checkOut) ==
    IF d < checkOut THEN {d} \cup RequiredDates(d + Day, checkOut) ELSE {}

\* Date.toDateString(): the calendar date of an instant
DateString(t) == t \div Day

\* include: { inventory: { where: { date: { gte: checkIn, lt: checkOut } } } }
IncludedInventory(inv, r, checkIn, checkOut) ==
    {k \in DOMAIN inv : k[1] = r /\ k[2] >= checkIn /\ k[2] < checkOut}

\* roomType.inventory.find(inv => inv.date.toDateString() === date.toDateString())
FindInventory(rows, date) == {k \in rows : DateString(k[2]) = DateString(date)}

\* let minAvailable = Infinity: above every allotment - booked
Infinity == 1000000000

\* minAvailable = Math.min(minAvailable, available) over the elements of S
RECURSIVE MinOf(_)
MinOf(S) ==
    IF S = {}
    THEN Infinity
    ELSE LET x == CHOOSE y \in S : TRUE
             m == MinOf(S \ {x})
         IN  IF x < m THEN x ELSE m

\* the body of roomTypes.map: the room's entry, or {} for `return null`
AvailableRoom(inv, rt, r, checkIn, checkOut, nights) ==
    LET rows == IncludedInventory(inv, r, checkIn, checkOut)
        requiredDates == RequiredDates(checkIn, checkOut)
        hasAllDates == \A d \in requiredDates : FindInventory(rows, d) # {}
        available(d) ==
            LET k == CHOOSE x \in FindInventory(rows, d) : TRUE
            IN  inv[k].allotment - inv[k].booked
        minAvailable == MinOf({available(d) : d \in requiredDates})
    IN  IF ~hasAllDates \/ minAvailable <= 0
        THEN {}
        ELSE {[roomTypeId |-> r, capacity |-> rt[r].capacity, available |-> minAvailable,
               pricing |-> computePricing(rt[r].baseRate, nights)]}

\* roomType.findMany({ where: { id?, capacity: { gte: guests } } }) and the map/filter
findAvailable(inv, rt, checkIn, checkOut, guests, roomTypeId) ==
    LET candidates ==
            {r \in DOMAIN rt : /\ (roomTypeId # AnyRoomType => r = roomTypeId)
                               /\ rt[r].capacity >= guests}
    IN  UNION {AvailableRoom(inv, rt, r, checkIn, checkOut, Nights(checkIn, checkOut)) :
                r \in candidates}

\* a variant that lets a zero-night range through
InvalidRangeStrict(checkIn, checkOut) == checkIn > checkOut

\* if (checkIn >= checkOut) return res.status(400)
InvalidRange(checkIn, checkOut) == checkIn >= checkOut

Availability(p) ==
    /\ Free(p)
    /\ \E checkIn \in SearchTimes, checkOut \in SearchTimes, guests \in GuestCounts,
          roomTypeId \in RoomTypeIds \cup {AnyRoomType, UnknownRoomType} :
        IF InvalidRange(checkIn, checkOut)
        THEN Answer(p, "availability",
                [roomTypeId |-> roomTypeId, checkIn |-> checkIn, checkOut |-> checkOut],
                [status |-> 400])
        ELSE Answer(p, "availability",
                [roomTypeId |-> roomTypeId, checkIn |-> checkIn, checkOut |-> checkOut],
                [status |-> 200, checkIn |-> checkIn, checkOut |-> checkOut,
                 guests |-> guests,
                 nights |-> Nights(checkIn, checkOut),
                 rooms |-> findAvailable(inventory, roomType, checkIn, checkOut,
                                         guests, roomTypeId)])
    /\ UNCHANGED <<store, orders, env, channel>>

----------------------------------------------------------------------------
(* PUT /v1/admin/room-types/:id *)

\* baseRate of an update: the seeded rates of the two room types
RateUpdates == {SeedBaseRate, 800000}

\* prisma.roomType.update({ where: { id }, data }) and the response; the
\* update of a missing row throws and the catch answers 500
UpdateRoomType(p) ==
    /\ Free(p)
    /\ \E r \in RoomTypeIds \cup {UnknownRoomType}, baseRate \in RateUpdates :
        IF r \notin DOMAIN roomType
        THEN /\ Answer(p, "updateRoomType", [roomTypeId |-> r, baseRate |-> baseRate],
                       [status |-> 500])
             /\ UNCHANGED roomType
        ELSE /\ roomType' = [roomType EXCEPT ![r].baseRate = baseRate]
             /\ Answer(p, "updateRoomType", [roomTypeId |-> r, baseRate |-> baseRate],
                       [status |-> 200])
    /\ UNCHANGED <<inventory, booking, points, ledger, orders, env, channel>>

----------------------------------------------------------------------------
(* Channel manager: the Beds24 adapter and the manual sync routes *)

AdapterOps == {"testConnection", "pushAvailability", "pushRates", "pullBookings",
               "getRoomMappings"}

\* provider given in a sync request; "all" when the request names none
Providers == {"beds24", "all"}

\* the bookings the OTA holds and reports for any `since` window
ExternalIds == {"bk1", "bk2"}

\* updates.length of a push
UpdateCounts == {0, 3}

\* try { await makeRequest('/properties'); return true } catch { return false }
testConnection(fails) == [thrown |-> FALSE, value |-> ~fails]

\* try { await makeRequest('/inventory', 'POST', ...); return { success: true, ... } }
\* catch { return { success: false, errors: [errorMessage] } }
pushAvailability(n, fails) ==
    IF fails
    THEN [thrown |-> FALSE, success |-> FALSE, errors |-> 1]
    ELSE [thrown |-> FALSE, success |-> TRUE, recordsProcessed |-> n]

\* the same with '/rates'
pushRates(n, fails) ==
    IF fails
    THEN [thrown |-> FALSE, success |-> FALSE, errors |-> 1]
    ELSE [thrown |-> FALSE, success |-> TRUE, recordsProcessed |-> n]

\* try { ...; return bookings } catch (error) { logOperation(...); throw error }
pullBookings(found, fails) ==
    IF fails THEN [thrown |-> TRUE] ELSE [thrown |-> FALSE, bookings |-> found]

\* try { ...; return mappings } catch (error) { logOperation(...); throw error }
getRoomMappings(fails) ==
    IF fails THEN [thrown |-> TRUE] ELSE [thrown |-> FALSE, mappings |-> {}]

\* a caller invokes an adapter operation; makeRequest throws when fetch fails
\* or the response is not ok
Adapter(p) ==
    /\ Free(p)
    /\ \E operation \in AdapterOps, fails \in BOOLEAN, n \in UpdateCounts,
          found \in SUBSET ExternalIds :
        Answer(p, "adapter", [operation |-> operation, networkFails |-> fails],
            CASE operation = "testConnection" -> testConnection(fails)
              [] operation = "pushAvailability" -> pushAvailability(n, fails)
              [] operation = "pushRates" -> pushRates(n, fails)
              [] operation = "pullBookings" -> pullBookings(found, fails)
              [] operation = "getRoomMappings" -> getRoomMappings(fails))
    /\ UNCHANGED <<store, orders, env, channel>>

SyncsLogged == BagCardinality(channel.providerPayload)

\* prisma.providerPayload.create
PayloadCreate(rows, provider, direction, kind) ==
    rows (+) SetToBag({[provider |-> provider, direction |-> direction, kind |-> kind]})

\* calls the sync routes make to an adapter: none
\* (TODO: Implement actual OTA API calls here)
AdapterCalls == 0

\* a variant that inserts every reported booking without looking for it first
ImportedBookingsAll(found) == SetToBag({[externalId |-> e, status |-> "PAID"] : e \in found})

\* the local bookings a pull inserts for the bookings the OTA holds: none
ImportedBookings(found) == EmptyBag

\* POST /sync/push-availability: request validation and inventory.findMany
\* over startDate <= date <= endDate
PushAvailability(p) ==
    /\ Free(p)
    /\ SyncsLogged < MaxSyncs
    /\ \E valid \in BOOLEAN, provider \in Providers, endDate \in {Day, 2 * Day} :
        IF ~valid
        THEN Answer(p, "push", [provider |-> provider], [status |-> 400])
        ELSE Begin(p, "push", [provider |-> provider], "payloadCreate",
                [provider |-> provider,
                 inventoryCount |->
                    Cardinality({k \in DOMAIN inventory : k[2] >= Day /\ k[2] <= endDate})])
    /\ UNCHANGED <<store, orders, env, channel>>

\* providerPayload.create and the 'Availability push triggered' response
PushAvailabilityLog(p) ==
    /\ At(p, "push", "payloadCreate")
    /\ channel' = [channel EXCEPT !.providerPayload =
                    PayloadCreate(@, req[p].loc.provider, "push", "availability")]
    /\ Respond(p, "push", [status |-> 200, inventoryRecords |-> req[p].loc.inventoryCount,
                           adapterCalls |-> AdapterCalls])
    /\ UNCHANGED <<store, orders, env>>

\* POST /sync/pull-reservations: request validation
PullReservations(p) ==
    /\ Free(p)
    /\ SyncsLogged < MaxSyncs
    /\ \E valid \in BOOLEAN, provider \in Providers :
        IF ~valid
        THEN Answer(p, "pull", [provider |-> provider], [status |-> 400])
        ELSE Begin(p, "pull", [provider |-> provider], "payloadCreate",
                [provider |-> provider])
    /\ UNCHANGED <<store, orders, env, channel>>

\* providerPayload.create and the 'Reservation pull triggered' response
PullReservationsLog(p) ==
    /\ At(p, "pull", "payloadCreate")
    /\ channel' = [providerPayload |->
                        PayloadCreate(channel.providerPayload, req[p].loc.provider,
                                      "pull", "reservations"),
                   externalBookings |->
                        channel.externalBookings (+) ImportedBookings(ExternalIds)]
    /\ Respond(p, "pull", [status |-> 200, adapterCalls |-> AdapterCalls])
    /\ UNCHANGED <<store, orders, env>>

----------------------------------------------------------------------------
(* A store call that throws: the handler's catch block answers 500 and the *)
(* writes the handler has already made stay.                               *)

DbError(p) ==
    /\ req[p].pc \notin {"done", "createOrder"}
    /\ Respond(p, req[p].op, [status |-> 500])
    /\ UNCHANGED <<store, orders, env, channel>>

----------------------------------------------------------------------------
(* Specifications *)

Step(p) ==
    \/ CreateBooking(p)
    \/ CreateBookingInsert(p)
    \/ CreateBookingOrder(p)
    \/ CreateBookingOrderFails(p)
    \/ CreateBookingSetOrder(p)
    \/ CancelBooking(p)
    \/ CancelBookingUpdate(p)
    \/ RazorpayWebhook(p)
    \/ WebhookBookingUpdate(p)
    \/ WebhookLedgerCreate(p)
    \/ WebhookUserUpdate(p)
    \/ WebhookInventoryUpdate(p)
    \/ RedeemPoints(p)
    \/ RedeemLedgerCreate(p)
    \/ RedeemUserUpdate(p)
    \/ BulkInventory(p)
    \/ BulkInventoryUpsert(p)
    \/ Availability(p)
    \/ UpdateRoomType(p)
    \/ Adapter(p)
    \/ PushAvailability(p)
    \/ PushAvailabilityLog(p)
    \/ PullReservations(p)
    \/ PullReservationsLog(p)

\* requests interleave at their awaits and store calls may throw
Next == \E p \in Procs : Step(p) \/ DbError(p)

Spec == Init /\ [][Next]_vars

(* The specifications below restrict Spec (fewer handlers, one slot, one    *)
(* deployment), so each of their behaviours is a behaviour of Spec.         *)

InitProd == Init /\ env = [webhookSecret |-> TRUE, razorpayKeys |-> TRUE]

\* the requests of one client, each sent after the answer to the previous
\* one, every store call succeeding
SeqStep(p) ==
    \/ CreateBooking(p)
    \/ CreateBookingInsert(p)
    \/ CreateBookingOrder(p)
    \/ CreateBookingOrderFails(p)
    \/ CreateBookingSetOrder(p)
    \/ CancelBooking(p)
    \/ CancelBookingUpdate(p)
    \/ RazorpayWebhook(p)
    \/ WebhookBookingUpdate(p)
    \/ WebhookLedgerCreate(p)
    \/ WebhookUserUpdate(p)
    \/ WebhookInventoryUpdate(p)
    \/ RedeemPoints(p)
    \/ RedeemLedgerCreate(p)
    \/ RedeemUserUpdate(p)
    \/ BulkInventory(p)
    \/ BulkInventoryUpsert(p)

SeqNext == SeqStep("p1")
SpecSeq == InitProd /\ [][SeqNext]_vars

\* the booking and inventory requests of one client, one after the other,
\* where any store call may throw
BookingStep(p) ==
    \/ CreateBooking(p)
    \/ CreateBookingInsert(p)
    \/ CreateBookingOrder(p)
    \/ CreateBookingOrderFails(p)
    \/ CreateBookingSetOrder(p)
    \/ CancelBooking(p)
    \/ CancelBookingUpdate(p)
    \/ RazorpayWebhook(p)
    \/ WebhookBookingUpdate(p)
    \/ WebhookLedgerCreate(p)
    \/ WebhookUserUpdate(p)
    \/ WebhookInventoryUpdate(p)
    \/ BulkInventory(p)
    \/ BulkInventoryUpsert(p)

BookingNext == BookingStep("p1") \/ DbError("p1")
SpecBooking == InitProd /\ [][BookingNext]_vars

\* concurrent guest requests, every store call succeeding
RaceStep(p) ==
    \/ CreateBooking(p)
    \/ CreateBookingInsert(p)
    \/ CreateBookingOrder(p)
    \/ CreateBookingSetOrder(p)
    \/ CancelBooking(p)
    \/ CancelBookingUpdate(p)
    \/ RazorpayWebhook(p)
    \/ WebhookBookingUpdate(p)
    \/ WebhookLedgerCreate(p)
    \/ WebhookUserUpdate(p)
    \/ WebhookInventoryUpdate(p)
    \/ RedeemPoints(p)
    \/ RedeemLedgerCreate(p)
    \/ RedeemUserUpdate(p)

\* one client and the payment gateway, under every deployment configuration
EnvNext ==
    \/ CreateBooking("p1")
    \/ CreateBookingInsert("p1")
    \/ CreateBookingOrder("p1")
    \/ CreateBookingOrderFails("p1")
    \/ CreateBookingSetOrder("p1")
    \/ RazorpayWebhook("p1")
    \/ WebhookBookingUpdate("p1")
    \/ WebhookLedgerCreate("p1")
    \/ WebhookUserUpdate("p1")
    \/ WebhookInventoryUpdate("p1")

SpecEnv == Init /\ [][EnvNext]_vars

\* guests, the gateway and an administrator changing rates, one request at a time
RatesNext ==
    \/ CreateBooking("p1")
    \/ CreateBookingInsert("p1")
    \/ CreateBookingOrder("p1")
    \/ CreateBookingSetOrder("p1")
    \/ CancelBooking("p1")
    \/ CancelBookingUpdate("p1")
    \/ RazorpayWebhook("p1")
    \/ WebhookBookingUpdate("p1")
    \/ WebhookLedgerCreate("p1")
    \/ WebhookUserUpdate("p1")
    \/ WebhookInventoryUpdate("p1")
    \/ RedeemPoints("p1")
    \/ RedeemLedgerCreate("p1")
    \/ RedeemUserUpdate("p1")
    \/ UpdateRoomType("p1")

SpecRates == InitProd /\ [][RatesNext]_vars

\* concurrent sync requests of administrators and callers of the adapter
ChannelStep(p) ==
    \/ Adapter(p)
    \/ PushAvailability(p)
    \/ PushAvailabilityLog(p)
    \/ PullReservations(p)
    \/ PullReservationsLog(p)

ChannelNext == \E p \in Procs : ChannelStep(p) \/ DbError(p)
SpecChannel == InitProd /\ [][ChannelNext]_vars

RaceNext == \E p \in Procs : RaceStep(p)
SpecRace == InitProd /\ [][RaceNext]_vars

\* concurrent payments and redemptions of a member, every store call succeeding
LoyaltyStep(p) ==
    \/ CreateBooking(p)
    \/ CreateBookingInsert(p)
    \/ CreateBookingOrder(p)
    \/ CreateBookingSetOrder(p)
    \/ RazorpayWebhook(p)
    \/ WebhookBookingUpdate(p)
    \/ WebhookLedgerCreate(p)
    \/ WebhookUserUpdate(p)
    \/ WebhookInventoryUpdate(p)
    \/ RedeemPoints(p)
    \/ RedeemLedgerCreate(p)
    \/ RedeemUserUpdate(p)

LoyaltyNext == \E p \in Procs : LoyaltyStep(p)
SpecLoyalty == InitProd /\ [][LoyaltyNext]_vars

\* one client creating a booking and searching, over room types whose base
\* rate an administrator has set to any of Rates
Rates == {0, 1, 7, 333, 4999, SeedBaseRate, 800000}

InitPricing ==
    /\ roomType \in [RoomTypeIds -> {[capacity |-> SeedCapacity, baseRate |-> b] : b \in Rates}]
    /\ inventory = InitInventory
    /\ booking = <<>>
    /\ points = [u \in Users |-> SeedPoints]
    /\ ledger = EmptyBag
    /\ orders = 0
    /\ channel = NoSync
    /\ env = [webhookSecret |-> TRUE, razorpayKeys |-> TRUE]
    /\ req = [p \in Procs |-> Idle]

PricingNext ==
    \/ CreateBooking("p1")
    \/ CreateBookingInsert("p1")
    \/ CreateBookingOrder("p1")
    \/ CreateBookingSetOrder("p1")
    \/ Availability("p1")

SpecPricing == InitPricing /\ [][PricingNext]_vars

\* one client searching, over the inventories an administrator and earlier
\* payments can have left: on each of days 1 to 3 no row, or a row that is
\* free, partly booked, fully booked or overbooked
RowStates ==
    {[allotment |-> 1, booked |-> 0], [allotment |-> 2, booked |-> 1],
     [allotment |-> 1, booked |-> 1], [allotment |-> 1, booked |-> 2],
     [allotment |-> 2, booked |-> 0]}

InventoryKeys == {<<r, d * Day>> : r \in RoomTypeIds, d \in 1..3}

InitAvail ==
    /\ roomType = [r \in RoomTypeIds |-> [capacity |-> SeedCapacity, baseRate |-> SeedBaseRate]]
    /\ inventory \in UNION {[S -> RowStates] : S \in SUBSET InventoryKeys}
    /\ booking = <<>>
    /\ points = [u \in Users |-> SeedPoints]
    /\ ledger = EmptyBag
    /\ orders = 0
    /\ channel = NoSync
    /\ env = [webhookSecret |-> TRUE, razorpayKeys |-> TRUE]
    /\ req = [p \in Procs |-> Idle]

AvailNext == Availability("p1")

SpecAvail == InitAvail /\ [][AvailNext]_vars

\* the gateway confirming bookings that guests created earlier: ConfirmBookings
\* PENDING bookings of the seeded room type, each with its payment order, and
\* notifications that arrive concurrently, at most one at a time per order
ConfirmBookings == 2

ConfirmStays == {<<Day, 4 * Day>>, <<2 * Day, 4 * Day>>}

PendingBooking(r, stay, user, orderId) ==
    [status |-> "PENDING", userId |-> user, roomTypeId |-> r,
     checkIn |-> stay[1], checkOut |-> stay[2], guests |-> 2,
     amountPaise |-> computePricing(SeedBaseRate, Nights(stay[1], stay[2])).totalAmount,
     razorpayOrderId |-> orderId]

InitConfirm ==
    /\ roomType = [r \in RoomTypeIds |-> [capacity |-> SeedCapacity, baseRate |-> SeedBaseRate]]
    /\ inventory = InitInventory
    /\ \E stays \in [1..ConfirmBookings -> ConfirmStays],
          users \in [1..ConfirmBookings -> Users \cup {NoUser}] :
        booking = [b \in 1..ConfirmBookings |-> PendingBooking(1, stays[b], users[b], b)]
    /\ points = [u \in Users |-> SeedPoints]
    /\ ledger = EmptyBag
    /\ orders = ConfirmBookings
    /\ channel = NoSync
    /\ env = [webhookSecret |-> TRUE, razorpayKeys |-> TRUE]
    /\ req = [p \in Procs |-> Idle]

\* no other slot is processing a notification for the same order
OnePerOrder(p) ==
    \A q \in Procs \ {p} :
        ~(req[q].op = "webhook" /\ req[q].pc # "done"
          /\ req[q].arg.orderId = req'[p].arg.orderId)

ConfirmStep(p) ==
    \/ RazorpayWebhookOf(p, 1..ConfirmBookings) /\ OnePerOrder(p)
    \/ WebhookBookingUpdate(p)
    \/ WebhookLedgerCreate(p)
    \/ WebhookUserUpdate(p)
    \/ WebhookInventoryUpdate(p)

ConfirmNext == \E p \in Procs : ConfirmStep(p)
SpecConfirm == InitConfirm /\ [][ConfirmNext]_vars

\* one guest booking and paying a stay: one night on day 1, 25 hours from
\* 01:00 on day 1 (check-in and check-out carry a time of day), the nights of
\* days 1 and 2, those of days 2 and 3, and a reversed range
NightStays ==
    {<<Day, 2 * Day>>, <<Day + 60, 2 * Day + 120>>, <<Day, 3 * Day>>, <<2 * Day, 4 * Day>>,
     <<2 * Day, Day>>}

NightsNext ==
    \/ CreateBookingOf("p1", NightStays)
    \/ CreateBookingInsert("p1")
    \/ CreateBookingOrder("p1")
    \/ CreateBookingSetOrder("p1")
    \/ RazorpayWebhook("p1")
    \/ WebhookBookingUpdate("p1")
    \/ WebhookLedgerCreate("p1")
    \/ WebhookUserUpdate("p1")
    \/ WebhookInventoryUpdate("p1")

SpecNights == InitProd /\ [][NightsNext]_vars

----------------------------------------------------------------------------
(* Shorthands of the properties *)

Quiescent == \A p \in Procs : Free(p)

\* the number of ledger rows of a type that refer to a booking
LedgerRows(type, ref) ==
    BagCardinality([k \in {x \in DOMAIN ledger : x.type = type /\ x.ref = ref} |-> ledger[k]])

\* the inventory keys of the nights a booking occupies
NightsOf(b) ==
    {<<booking[b].roomTypeId, d>> : d \in RequiredDates(booking[b].checkIn, booking[b].checkOut)}

RECURSIVE EarnedBy(_, _)
EarnedBy(u, bs) ==
    IF bs = {} THEN 0
    ELSE LET b == CHOOSE x \in bs : TRUE
         IN  (IF booking[b].userId = u THEN PointsEarned(booking[b].amountPaise) ELSE 0)
             + EarnedBy(u, bs \ {b})

----------------------------------------------------------------------------
(* C1 *)

\* a payment.captured notification for booking b arrives in slot p and passes
\* the signature check
Delivery(p, b) ==
    /\ Free(p)
    /\ req'[p].op = "webhook"
    /\ req'[p].arg.event = "payment.captured"
    /\ req'[p].res.status # 400
    /\ FindByOrder(req'[p].arg.orderId) = b

\* no booking has more than one EARN row, no balance holds more than the
\* points of the user's paid bookings, and no night is counted more often
\* than there are paid bookings on it
AwardedOnce ==
    /\ \A b \in BookingIds : LedgerRows("EARN", b) <= 1
    /\ \A u \in Users :
        points[u] <= SeedPoints + EarnedBy(u, {b \in BookingIds : booking[b].status # "PENDING"})
    /\ \A k \in DOMAIN inventory :
        inventory[k].booked <=
            Cardinality({b \in BookingIds : booking[b].status # "PENDING" /\ k \in NightsOf(b)})

\* C1: ConfirmPayment is idempotent. When requests run one after the other
\* (store calls may throw), a
\* payment.captured notification for a booking that an earlier notification
\* has already moved to PAID is answered at once and changes no
\* booking, ledger row, balance or inventory row; a notification that was
\* applied leaves the booking PAID; so no booking is awarded twice and no
\* night is counted twice.
ConfirmPaymentIdempotent ==
    /\ [][\A b \in BookingIds :
            Delivery("p1", b) /\ booking[b].status = "PAID"
                => /\ store' = store
                   /\ req'["p1"].pc = "done"
                   /\ req'["p1"].res = [status |-> 200, marked |-> FALSE]]_vars
    /\ [](\A p \in Procs :
            req[p].op = "webhook" /\ req[p].res = [status |-> 200, marked |-> TRUE]
                => booking[FindByOrder(req[p].arg.orderId)].status = "PAID")
    /\ []AwardedOnce

\* a second notification for the same order has been answered, without being
\* applied, after the first one was applied in full: the booking is PAID with
\* its one EARN row, the balance raised once and both nights counted once
ConfirmedTwice ==
    /\ req["p1"].op = "webhook"
    /\ req["p1"].arg.event = "payment.captured"
    /\ req["p1"].res = [status |-> 200, marked |-> FALSE]
    /\ LET b == FindByOrder(req["p1"].arg.orderId)
       IN  /\ b # 0
           /\ booking[b].status = "PAID"
           /\ booking[b].userId # NoUser
           /\ LedgerRows("EARN", b) = 1
           /\ points[booking[b].userId] = SeedPoints + PointsEarned(booking[b].amountPaise)
           /\ \A k \in NightsOf(b) : k \in DOMAIN inventory /\ inventory[k].booked = 1

----------------------------------------------------------------------------
(* C2 *)

\* C2: ConfirmPayment applies its mutations as a unit. Whenever no request is
\* in progress, a PAID booking of a user has its EARN row, the user's balance
\* agrees with the ledger, and every night of the booking whose inventory row
\* exists since the start is counted; a booking still PENDING has no EARN row.
ConfirmPaymentAtomic ==
    Quiescent =>
        \A b \in BookingIds :
            /\ booking[b].status = "PAID" =>
                /\ booking[b].userId # NoUser =>
                    /\ LedgerRows("EARN", b) = 1
                    /\ points[booking[b].userId] = LedgerSum(ledger, booking[b].userId)
                /\ \A k \in NightsOf(b) \cap DOMAIN InitInventory : inventory[k].booked >= 1
            /\ booking[b].status = "PENDING" => LedgerRows("EARN", b) = 0

----------------------------------------------------------------------------
(* C3 *)

\* C3: after any interleaving of ConfirmPayment and redeem requests that all
\* ran to completion, once no request is in progress every user's balance
\* equals the sum of the points of the user's ledger rows.
BalanceMatchesLedgerAtRest ==
    Quiescent => \A u \in Users : points[u] = LedgerSum(ledger, u)

\* no request is in progress, a booking's points have been earned, and two
\* redemptions that overlapped (each passed the balance check before the
\* other wrote) have overdrawn the balance
EarnedAndRedeemedAtRest ==
    /\ Quiescent
    /\ \E b \in BookingIds : LedgerRows("EARN", b) = 1
    /\ Redeemed >= 2
    /\ \E u \in Users : points[u] < 0

----------------------------------------------------------------------------
(* C4 *)

\* C4: every balance mutation is committed together with its ledger row: in
\* every reachable state, those between the store writes of a handler
\* included, every user's balance equals the sum of the user's ledger rows.
BalanceMatchesLedgerAlways ==
    \A u \in Users : points[u] = LedgerSum(ledger, u)

----------------------------------------------------------------------------
(* C5 *)

\* C5: every Inventory row has booked <= allotment in every reachable state.
BookedWithinAllotment ==
    \A k \in DOMAIN inventory : inventory[k].booked <= inventory[k].allotment

----------------------------------------------------------------------------
(* C6 *)

\* C6: a CANCELLED booking is never reactivated: under any interleaving of
\* Cancel and ConfirmPayment, once a booking's status is CANCELLED no step
\* changes it.
CancelledStaysCancelled ==
    [][\A b \in BookingIds :
        booking[b].status = "CANCELLED" => booking'[b].status = "CANCELLED"]_vars

----------------------------------------------------------------------------
(* C7 *)

----------------------------------------------------------------------------
(* C8 *)

\* C8: the refund of a Cancel at `now` for a booking with total T is T when
\* checkIn - now is 24h0m or more, half of T (to the nearest unit) when it is
\* strictly between 0 and 24h, and 0 when the check-in time has passed.
RefundTiers ==
    \A p \in Procs :
        At(p, "cancel", "bookingUpdate") =>
            LET l == req[p].loc
                T == booking[l.bookingId].amountPaise
            IN  /\ l.minutesUntil >= 24 * 60 => l.refundAmount = T
                /\ (l.minutesUntil > 0 /\ l.minutesUntil < 24 * 60) =>
                        2 * l.refundAmount \in {T, T + 1}
                /\ l.minutesUntil < 0 => l.refundAmount = 0

----------------------------------------------------------------------------
(* C9 *)

\* v is x * pct / 100 rounded to a nearest unit
Nearest(v, x, pct) == 100 * v - x * pct \in (0 - 50)..50

Breakdown(pr, baseRate, nights) ==
    /\ pr.baseAmount = baseRate * nights
    /\ Nearest(pr.serviceCharge, pr.baseAmount, 10)
    /\ Nearest(pr.gstOnRoom, pr.baseAmount, 12)
    /\ Nearest(pr.gstOnService, pr.serviceCharge, 18)
    /\ pr.totalAmount = pr.baseAmount + pr.serviceCharge + pr.gstOnRoom + pr.gstOnService
    /\ \A f \in DOMAIN pr : pr[f] >= 0
    /\ (baseRate = 500000 /\ nights = 2) =>
            pr = [baseAmount |-> 1000000, serviceCharge |-> 100000, gstOnRoom |-> 120000,
                  gstOnService |-> 18000, totalAmount |-> 1238000]

\* C9: the price breakdown of the availability search and of Create is
\* roomTotal = baseRate * nights, serviceCharge = round(10% of roomTotal),
\* taxOnRoom = round(12% of roomTotal), taxOnService = round(18% of
\* serviceCharge), total = their sum, none negative; 500000 for 2 nights
\* gives 1000000, 100000, 120000, 18000 and 1238000.
PriceBreakdown ==
    \A p \in Procs :
        /\ (req[p].op = "create" /\ "pricing" \in DOMAIN req[p].loc) =>
            /\ req[p].loc.nights >= 1
            /\ \E r \in RoomTypeIds :
                Breakdown(req[p].loc.pricing, roomType[r].baseRate, req[p].loc.nights)
        /\ (req[p].op = "create" /\ req[p].res.status = 201) =>
            /\ Breakdown(req[p].res.pricing,
                         roomType[booking[req[p].res.bookingId].roomTypeId].baseRate,
                         req[p].res.nights)
            /\ booking[req[p].res.bookingId].amountPaise = req[p].res.pricing.totalAmount
        /\ (req[p].op = "availability" /\ req[p].res.status = 200) =>
            /\ req[p].res.nights >= 1
            /\ \A room \in req[p].res.rooms :
                Breakdown(room.pricing, roomType[room.roomTypeId].baseRate, req[p].res.nights)

\* a two-night booking at 500000 per night was created for 1238000 and a
\* search then priced a one-night stay of the same room type
PricedBoth ==
    /\ \E b \in BookingIds : booking[b].amountPaise = 1238000
    /\ req["p1"].op = "availability"
    /\ req["p1"].res.status = 200
    /\ req["p1"].res.nights = 1
    /\ \E room \in req["p1"].res.rooms : room.pricing.totalAmount = 619000

----------------------------------------------------------------------------
(* C10 *)

\* the calendar dates of the nights of a stay [checkIn, checkOut)
CalendarDates(checkIn, checkOut) ==
    {d \in 0..5 : d * Day < checkOut /\ (d + 1) * Day > checkIn}

\* C10: the availability search returns a room type if and only if its
\* capacity >= guestCount, an Inventory row exists for every calendar date in
\* [checkIn, checkOut) and allotment - booked > 0 on each of them; the
\* reported count is the minimum of allotment - booked over those dates.
AvailabilityMatchesInventory ==
    \A p \in Procs :
        (req[p].op = "availability" /\ req[p].res.status = 200) =>
            LET res == req[p].res
                dates == CalendarDates(res.checkIn, res.checkOut)
                free(r, d) == inventory[<<r, d * Day>>].allotment - inventory[<<r, d * Day>>].booked
                offered(r) ==
                    /\ req[p].arg.roomTypeId \in {AnyRoomType, r}
                    /\ roomType[r].capacity >= res.guests
                    /\ \A d \in dates : <<r, d * Day>> \in DOMAIN inventory /\ free(r, d) > 0
            IN  /\ \A r \in RoomTypeIds : offered(r) <=> \E room \in res.rooms : room.roomTypeId = r
                /\ \A room \in res.rooms :
                    /\ room.roomTypeId \in RoomTypeIds
                    /\ offered(room.roomTypeId) =>
                        room.available = MinOf({free(room.roomTypeId, d) : d \in dates})

----------------------------------------------------------------------------
(* C11 *)

\* C11: an availability query with checkIn = checkOut, or with checkOut
\* before checkIn, is rejected as invalid input (400) and its response
\* carries no room list.
EmptyRangeRejected ==
    \A p \in Procs :
        (req[p].op = "availability" /\ req[p].arg.checkIn >= req[p].arg.checkOut) =>
            /\ req[p].res.status = 400
            /\ "rooms" \notin DOMAIN req[p].res

\* a zero-night query and a reversed query are what a search can be answering
ZeroNightsRejected ==
    /\ req["p1"].op = "availability"
    /\ req["p1"].arg.checkIn = req["p1"].arg.checkOut
    /\ req["p1"].res.status = 400

----------------------------------------------------------------------------
(* C12 *)

\* the request in slot p was accepted by this step
Started(p, op) == req[p].pc = "done" /\ req'[p] # req[p] /\ req'[p].op = op

\* C12: a redeem of more points than the user's current balance fails with
\* InsufficientBalance (400), appends no ledger entry and leaves the balance
\* unchanged.
InsufficientBalanceRejected ==
    [][\A p \in Procs :
        (Started(p, "redeem") /\ req'[p].arg.points > points[req'[p].arg.userId]) =>
            /\ req'[p].res.status = 400
            /\ req'[p].pc = "done"
            /\ ledger' = ledger
            /\ points' = points]_vars

\* a redeem of more than the balance, after the user had earned points
RedeemAboveBalance ==
    /\ req["p1"].op = "redeem"
    /\ req["p1"].res.status = 400
    /\ points[req["p1"].arg.userId] > 0
    /\ req["p1"].arg.points > points[req["p1"].arg.userId]

----------------------------------------------------------------------------
(* C13 *)

\* C13: a successful redeem appends exactly one REDEEM ledger entry of
\* -points, decreases the user's balance by exactly points (so the balance
\* is strictly lower than before) and returns a discount equal to points.
RedeemEffect ==
    [][\A p \in Procs :
        LET u == req[p].arg.userId
            pts == req[p].arg.points
        IN  /\ (Started(p, "redeem") /\ req'[p].arg.points <= points[req'[p].arg.userId]) =>
                /\ req'[p].pc = "ledgerCreate"
                /\ ledger' = ledger /\ points' = points
            /\ (At(p, "redeem", "ledgerCreate") /\ req'[p] # req[p]) =>
                /\ req'[p].pc = "userUpdate"
                /\ ledger' = ledger (+) SetToBag({[userId |-> u, points |-> 0 - pts,
                                                   type |-> "REDEEM", ref |-> 0]})
                /\ points' = points
            /\ (At(p, "redeem", "userUpdate") /\ req'[p] # req[p]) =>
                /\ req'[p].pc = "done"
                /\ req'[p].res.status = 200
                /\ req'[p].res.discountAmount = pts
                /\ req'[p].res.pointsRedeemed = pts
                /\ points' = [points EXCEPT ![u] = @ - pts]
                /\ points'[u] < points[u]
                /\ ledger' = ledger
            /\ (req'[p].op = "redeem" /\ req'[p].res.status = 200) =>
                req[p].op = "redeem" /\ req[p].pc \in {"userUpdate", "done"}]_vars

\* a redeem of 100 of the 123 points a paid booking earned has succeeded
RedeemedEarnedPoints ==
    /\ req["p1"].op = "redeem"
    /\ req["p1"].res.status = 200
    /\ req["p1"].res.discountAmount = 100
    /\ points[req["p1"].arg.userId] = 23
    /\ LedgerSum(ledger, req["p1"].arg.userId) = 23

----------------------------------------------------------------------------
(* C14 *)

\* C14: Cancel fails with NotFound (404) when no booking has the id and with
\* Conflict (400) when the booking is already CANCELLED, changing no booking,
\* inventory or ledger state; a second Cancel of the same booking never
\* succeeds, so no booking is refunded twice.
CancelFailsCleanly ==
    /\ [][\A p \in Procs :
            Started(p, "cancel") =>
                LET id == req'[p].arg.bookingId
                IN  /\ id \notin BookingIds =>
                        req'[p].res.status = 404 /\ req'[p].pc = "done" /\ store' = store
                    /\ (id \in BookingIds /\ booking[id].status = "CANCELLED") =>
                        req'[p].res.status = 400 /\ req'[p].pc = "done" /\ store' = store]_vars
    /\ [](\A p, q \in Procs :
            (/\ p # q
             /\ req[p].op = "cancel" /\ req[p].res.status = 200
             /\ req[q].op = "cancel" /\ req[q].res.status = 200)
            => req[p].res.bookingId # req[q].res.bookingId)

----------------------------------------------------------------------------
(* C15 *)

\* C15: Create rejects a request with checkIn >= checkOut, or with more
\* guests than the room type's capacity, with a validation error (400),
\* persisting no Booking and creating no payment order; every persisted
\* Booking has checkIn < checkOut.
CreateValidates ==
    /\ [][\A p \in Procs :
            Started(p, "create") =>
                LET a == req'[p].arg
                IN  (\/ a.checkIn >= a.checkOut
                     \/ /\ a.roomTypeId \in DOMAIN roomType
                        /\ a.guests > roomType[a.roomTypeId].capacity)
                    => /\ req'[p].res.status = 400
                       /\ req'[p].pc = "done"
                       /\ booking' = booking
                       /\ orders' = orders]_vars
    /\ [](\A b \in BookingIds : booking[b].checkIn < booking[b].checkOut)

\* a request for three guests in a room for two was rejected
OverCapacityRejected ==
    /\ req["p1"].op = "create"
    /\ req["p1"].res.status = 400
    /\ req["p1"].arg.checkIn < req["p1"].arg.checkOut
    /\ req["p1"].arg.roomTypeId \in DOMAIN roomType
    /\ req["p1"].arg.guests > roomType[req["p1"].arg.roomTypeId].capacity
    /\ booking = <<>>
    /\ orders = 0

----------------------------------------------------------------------------
(* C16 *)

\* C16: whatever the deployment configuration, a payment notification whose
\* signature is missing or does not match applies no mutation: no step of
\* its handler changes a booking's status, the loyalty ledger, a balance or
\* the inventory, and it never reports a booking as marked PAID.
UnsignedWebhookRejected ==
    [][\A p \in Procs :
        (req'[p].op = "webhook" /\ req'[p] # req[p] /\ ~req'[p].arg.signatureMatches) =>
            /\ store' = store
            /\ req'[p].res # [status |-> 200, marked |-> TRUE]]_vars

----------------------------------------------------------------------------
(* C17 *)

\* C17: no operation of the channel adapter lets a network or API failure
\* escape as an exception: a failed request is returned as a result value,
\* with success false and populated errors for the push operations.
AdapterNeverThrows ==
    \A p \in Procs :
        req[p].op = "adapter" =>
            /\ ~req[p].res.thrown
            /\ (req[p].arg.networkFails
                /\ req[p].arg.operation \in {"pushAvailability", "pushRates"}) =>
                    ~req[p].res.success /\ req[p].res.errors > 0

----------------------------------------------------------------------------
(* C18 *)

\* C18: every sync invocation calls the adapter operation and persists a
\* ProviderPayload record whether the call succeeds or fails; a failed call
\* is recorded with success false and retried at most 3 times.
SyncCallsAdapterAndAudits ==
    \A p \in Procs :
        (req[p].op \in {"push", "pull"} /\ req[p].pc = "done" /\ req[p].res.status = 200) =>
            /\ req[p].res.adapterCalls \in 1..4
            /\ \E row \in DOMAIN channel.providerPayload :
                /\ row.provider = req[p].arg.provider
                /\ "success" \in DOMAIN row

----------------------------------------------------------------------------
(* C19 *)

----------------------------------------------------------------------------
(* C20 *)

\* C20: a booking's total is a snapshot taken at Create from the room type's
\* then-current base rate; no later operation (rate update, ConfirmPayment,
\* Cancel, redeem) changes it, and the points awarded at confirmation and the
\* refund computed at cancellation derive from the stored total, not from the
\* room type's current rate.
TotalIsSnapshot ==
    /\ [][\A b \in BookingIds : booking'[b].amountPaise = booking[b].amountPaise]_vars
    /\ [][\A p \in Procs :
            /\ (Started(p, "create") /\ req'[p].pc = "bookingCreate") =>
                Breakdown(req'[p].loc.pricing, roomType[req'[p].arg.roomTypeId].baseRate,
                          Nights(req'[p].arg.checkIn, req'[p].arg.checkOut))
            /\ (At(p, "create", "bookingCreate") /\ Len(booking') = Len(booking) + 1) =>
                booking'[Len(booking')].amountPaise = req[p].loc.pricing.totalAmount]_vars
    /\ [](\A row \in DOMAIN ledger :
            row.type = "EARN" => row.points = booking[row.ref].amountPaise \div 10000)
    /\ [](\A p \in Procs :
            (req[p].op = "cancel" /\ req[p].res.status = 200) =>
                LET T == booking[req[p].res.bookingId].amountPaise
                    refund == req[p].res.refundAmount
                IN  \/ req[p].res.refundPolicy = "full" /\ refund = T
                    \/ req[p].res.refundPolicy = "partial" /\ Nearest(refund, T, 50)
                    \/ req[p].res.refundPolicy = "none" /\ refund = 0)

\* a booking priced at 500000 per night was confirmed and cancelled with a
\* full refund after the room type's rate had been raised to 800000
RepricedAfterBooking ==
    /\ req["p1"].op = "cancel"
    /\ req["p1"].res.status = 200
    /\ req["p1"].res.refundPolicy = "full"
    /\ req["p1"].res.refundAmount = 1238000
    /\ roomType[booking[req["p1"].res.bookingId].roomTypeId].baseRate = 800000
    /\ \E row \in DOMAIN ledger :
        row.type = "EARN" /\ row.ref = req["p1"].res.bookingId /\ row.points = 123

----------------------------------------------------------------------------
(* C21 *)

\* C21: when the creation of the payment order fails during Create, the
\* booking creation fails outright: once the failed Create has answered, no
\* Booking row remains PENDING without a payment order id.
OrderFailureLeavesNoBooking ==
    \A p \in Procs :
        (req[p].op = "create" /\ req[p].pc = "done" /\ req[p].res.status = 500) =>
            \A b \in BookingIds :
                ~(booking[b].status = "PENDING" /\ booking[b].razorpayOrderId = NoOrder)

----------------------------------------------------------------------------
(* C22 *)

\* C22: duplicate payment notifications are harmless under concurrency: once
\* the notifications for an order have all been processed, in any
\* interleaving of their store calls, the booking is PAID with at most one
\* EARN row, the user's balance holds the booking's points at most once and
\* every night of the stay is counted once per paid booking.
DuplicateNotificationsHarmless ==
    Quiescent =>
        \A b \in BookingIds :
            booking[b].status = "PAID" =>
                /\ LedgerRows("EARN", b) <= 1
                /\ \A u \in Users :
                    points[u] <= SeedPoints
                                 + EarnedBy(u, {c \in BookingIds : booking[c].status = "PAID"})
                /\ \A k \in NightsOf(b) \cap DOMAIN inventory :
                    inventory[k].booked <=
                        Cardinality({c \in BookingIds :
                                        booking[c].status = "PAID" /\ k \in NightsOf(c)})

----------------------------------------------------------------------------
(* C23 *)

\* the confirmation of booking b has incremented the row of inventory key k:
\* b has left PENDING and no handler confirming b is still before that date
CountedOn(b, k) ==
    /\ booking[b].status = "PAID"
    /\ k \in NightsOf(b)
    /\ \A p \in Procs :
        (req[p].op = "webhook" /\ req[p].pc # "done" /\ req[p].loc.bookingId = b) =>
            req[p].pc = "inventoryUpdate" /\ req[p].loc.d > k[2]

\* C23: no inventory update is lost under concurrent confirmations of
\* distinct bookings whose stays overlap: at every moment each Inventory row
\* has been incremented once for every booking whose confirmation has passed
\* its date, so after all complete a row covered by j bookings has gained j.
NoLostInventoryUpdate ==
    \A k \in DOMAIN inventory :
        inventory[k].booked =
            InitInventory[k].booked + Cardinality({b \in BookingIds : CountedOn(b, k)})

\* two confirmations in progress at once, of bookings that share the night of
\* day 2, have both incremented that night's row
ConfirmedTogether ==
    /\ \A p \in Procs : At(p, "webhook", "inventoryUpdate") /\ req[p].loc.d = 3 * Day
    /\ req["p1"].loc.bookingId # req["p2"].loc.bookingId
    /\ inventory[<<1, 2 * Day>>].booked = 2
    /\ inventory[<<1, Day>>].booked = 1

----------------------------------------------------------------------------
(* C24 *)

\* C24: the first successful ConfirmPayment of a PENDING booking moves it to
\* PAID and counts every night of its stay in Inventory: when the handler
\* reports the booking as marked PAID, every calendar date in
\* [checkIn, checkOut) has an Inventory row of the booking's room type whose
\* booked count includes the booking.
ConfirmCountsEveryNight ==
    \A p \in Procs :
        (req[p].op = "webhook" /\ req[p].res = [status |-> 200, marked |-> TRUE]) =>
            LET b == FindByOrder(req[p].arg.orderId)
            IN  /\ booking[b].status = "PAID"
                /\ \A k \in NightsOf(b) : k \in DOMAIN inventory /\ inventory[k].booked >= 1

----------------------------------------------------------------------------
(* C25 *)

----------------------------------------------------------------------------
(* C26 *)

----------------------------------------------------------------------------
(* C27 *)

----------------------------------------------------------------------------
(* C28 *)

\* the increments made on the Inventory rows in keys
RECURSIVE TotalBooked(_)
TotalBooked(keys) ==
    IF keys = {} THEN 0
    ELSE LET k == CHOOSE x \in keys : TRUE
         IN  (inventory[k].booked - InitInventory[k].booked) + TotalBooked(keys \ {k})

RECURSIVE NightsPaid(_)
NightsPaid(bs) ==
    IF bs = {} THEN 0
    ELSE LET b == CHOOSE x \in bs : TRUE
         IN  Nights(booking[b].checkIn, booking[b].checkOut) + NightsPaid(bs \ {b})

\* C28: for every valid range, aligned to midnight or not, the nights the
\* stay is priced for equal the number of dates enumerated in
\* [checkIn, checkOut) for the inventory check, and equal the number of
\* Inventory rows that ConfirmPayment increments for a booking with these
\* dates: once the confirmations have completed, the rows have been
\* incremented once per priced night of every paid booking.
NightsMatchDates ==
    /\ \A b \in BookingIds :
        Nights(booking[b].checkIn, booking[b].checkOut) =
            Cardinality(RequiredDates(booking[b].checkIn, booking[b].checkOut))
    /\ Quiescent =>
        TotalBooked(DOMAIN inventory) =
            NightsPaid({b \in BookingIds : booking[b].status = "PAID"})

----------------------------------------------------------------------------
(* C29 *)

\* C29: a user's balance is never negative: under any interleaving of
\* concurrent redeem requests of the same user, the points redeemed never
\* exceed the points the user held, so the balance is >= 0 in every
\* reachable state.
BalanceNeverNegative ==
    \A u \in Users : points[u] >= 0

----------------------------------------------------------------------------
(* C30 *)

\* C30: a payment notification always finds its booking: a payment.captured
\* notification that carries an order id the gateway has created for a
\* booking, processed at any moment after the gateway created that order,
\* also before Create has finished, is not answered 'Booking not found'.
NotificationFindsBooking ==
    [][\A p \in Procs :
        (/\ Started(p, "webhook")
         /\ req'[p].arg.event = "payment.captured"
         /\ req'[p].arg.signatureMatches
         /\ req'[p].arg.orderId <= orders)
        => req'[p].res.status # 404]_vars

====
